---- MODULE Spec2Model ----
(***************************************************************************)
(* vks::ModelGroup (src/ModelGroup.hpp): several assets are merged into    *)
(* one vertex buffer, one index buffer, one material table and one         *)
(* instance list; buildCommandBuffer turns the instance list into          *)
(* instanced draws.                                                        *)
(*                                                                         *)
(* Floats are modelled by integers (positions, normals, colours) or by     *)
(* reduced fractions <<num, den>> (material scalars).  Every uint32_t      *)
(* counter stays far below 2^32 within the bounds, so none can wrap.       *)
(***************************************************************************)
EXTENDS Integers, Sequences, FiniteSets, TLC

VARIABLES
    platform,       \* build configuration: "android" (__ANDROID__ defined) or "desktop"
    instances,      \* std::vector<DrawCommand> instances
    instanceDatas,  \* std::vector<InstanceData> instanceDatas
    indexCount,     \* uint32_t indexCount
    vertexCount,    \* uint32_t vertexCount
    vertexBuffer,   \* std::vector<float> vertexBuffer
    indexBuffer,    \* std::vector<uint32_t> indexBuffer
    aiMaterials,    \* std::vector<aiMaterial*> aiMaterials (the copies they point to)
    models,         \* std::vector<Model> models
    materials,      \* std::vector<Material> materials
    mapDic,         \* prepare's local lookup table, as the last prepare left it
    vertices,       \* vks::Buffer vertices
    indices,        \* vks::Buffer indices
    instanceBuff,   \* vks::Buffer instanceBuff
    materialsBuff,  \* vks::Buffer materialsBuff
    texArray,       \* vks::Texture2DArray texArray
    lastCall,       \* what the last call left its caller: see Call
    halted          \* TRUE once undefined behaviour has killed the process

vars == <<platform, instances, instanceDatas, indexCount, vertexCount, vertexBuffer,
          indexBuffer, aiMaterials, models, materials, mapDic, vertices, indices,
          instanceBuff, materialsBuff, texArray, lastCall, halted>>

\* The state addModel works on.
loadVars == <<indexCount, vertexCount, vertexBuffer, indexBuffer, aiMaterials, models>>
\* The state prepare and the build/update operations write.
gpuVars == <<materials, mapDic, vertices, indices, instanceBuff, materialsBuff, texArray>>

----------------------------------------------------------------------------
(* Bounds of the explored state space. *)

\* Models loaded under Spec.
MaxModels == 2
\* Models loaded under SpecInst.
MaxInstModels == 2
\* Models loaded under SpecBuf.
MaxBufModels == 1
\* Models loaded under SpecDraw.
MaxDrawModels == 2
\* prepare is not called once it would take the packed material list past this.
MaxPacked == 8
\* Length of the instance list under SpecInst.
MaxInstances == 3
\* Length of the list passed to the vector overload of addInstance.
MaxDatas == 2
\* Length of the instance list under SpecBuf.
MaxBufInstances == 2
\* Length of the instance list under SpecDraw.
MaxDrawInstances == 4
\* Models loaded under SpecCap.
MaxCapModels == 3
\* prepare is not called under SpecCap once it would take the packed material
\* list past this.
MaxCapPacked == 390

----------------------------------------------------------------------------
(* Machine arithmetic and small helpers. *)

\* Stand-in for FLT_MAX: larger than every coordinate of the catalogue.
FLT_MAX == 1000000000

sizeofFloat == 4
sizeofU32 == 4
\* sizeof(InstanceData): uint32_t + glm::mat4.
sizeofInstanceData == 68
\* sizeof(vks::Material): 4 vec4 + 3 uint32_t + 5 float.
sizeofMaterial == 96

fmax(a, b) == IF a > b THEN a ELSE b
fmin(a, b) == IF a < b THEN a ELSE b

RECURSIVE Gcd(_, _)
Gcd(a, b) == IF b = 0 THEN a ELSE Gcd(b, a % b)

\* The float n/d as a reduced fraction (n >= 0, d > 0).
Frac(n, d) == LET g == Gcd(n, d) IN <<n \div g, d \div g>>

Zero3D == <<0, 0, 0>>

----------------------------------------------------------------------------
(* The Scene Importer, seen from addModel: what Assimp::Importer::ReadFile *)
(* returns for each file of a small catalogue.                             *)

\* An aiMaterial: the properties prepare reads.  texDiffuse = "" when the
\* material has no diffuse texture (GetTexture leaves the aiString empty).
AiMaterial(tex, shininess, kd) ==
    [ambient |-> <<0, 0, 0>>, diffuse |-> kd, specular |-> <<1, 1, 1>>,
     emissive |-> <<0, 0, 0>>, shininess |-> shininess, texDiffuse |-> tex]

\* An aiMesh.  mTextureCoords / mTangents / mBitangents are <<>> when the mesh
\* has none (HasTextureCoords(0) / HasTangentsAndBitangents() false).
AiMesh(mat, verts, normals, uvs, faces) ==
    [mMaterialIndex |-> mat, mVertices |-> verts, mNormals |-> normals,
     mTextureCoords |-> uvs, mTangents |-> <<>>, mBitangents |-> <<>>,
     mFaces |-> faces]

\* pScene == NULL.
NullScene == [null |-> TRUE, mMaterials |-> <<>>, mMeshes |-> <<>>]

AiScene(mats, meshes) == [null |-> FALSE, mMaterials |-> mats, mMeshes |-> meshes]

\* One textured triangle.
TriScene ==
    AiScene(<<AiMaterial("a.png", 20, <<1, 0, 0>>)>>,
            <<AiMesh(0, <<<<0, 0, 0>>, <<2, 0, 0>>, <<0, 3, 0>>>>,
                        <<<<0, 1, 0>>, <<0, 1, 0>>, <<0, 1, 0>>>>,
                        <<<<0, 0, 0>>, <<1, 0, 0>>, <<0, 1, 0>>>>,
                        <<<<0, 1, 2>>>>)>>)

\* Three materials (one without texture, one sharing a.png with TriScene) and
\* two meshes; the second mesh has a quad, a line and a point among its faces.
DuoScene ==
    AiScene(<<AiMaterial("b.png", 0, <<0, 1, 0>>),
              AiMaterial("", 10, <<0, 0, 1>>),
              AiMaterial("a.png", 5, <<1, 1, 0>>)>>,
            <<AiMesh(2, <<<<-1, -2, 5>>, <<4, 1, 0>>, <<0, 2, -3>>>>,
                        <<<<0, 0, 1>>, <<0, 0, 1>>, <<0, 0, 1>>>>,
                        <<>>,
                        <<<<2, 1, 0>>>>),
              AiMesh(1, <<<<0, 0, 0>>, <<1, 0, 0>>, <<1, 1, 0>>, <<0, 1, 7>>>>,
                        <<<<1, 0, 0>>, <<1, 0, 0>>, <<1, 0, 0>>, <<1, 0, 0>>>>,
                        <<>>,
                        <<<<0, 1, 2, 3>>, <<0, 1, 2>>, <<0, 1>>, <<1, 2, 3>>, <<3>>>>)>>)

\* One material without texture, one mesh whose only vertex is (1,2,3).
PlainScene ==
    AiScene(<<AiMaterial("", 0, <<1, 1, 1>>)>>,
            <<AiMesh(0, <<<<1, 2, 3>>>>, <<<<0, 1, 0>>>>, <<>>, <<<<0>>>>)>>)

\* One material without texture, one triangle.
BareScene ==
    AiScene(<<AiMaterial("", 40, <<1, 0, 1>>)>>,
            <<AiMesh(0, <<<<0, 0, 0>>, <<1, 0, 0>>, <<0, 0, 1>>>>,
                        <<<<0, 1, 0>>, <<0, 1, 0>>, <<0, 1, 0>>>>,
                        <<>>,
                        <<<<0, 2, 1>>>>)>>)

\* Number of materials of the large asset of SpecCap.
BigMaterials == 128

\* An asset with BigMaterials textured materials and one triangle.
BigScene ==
    AiScene([i \in 1..BigMaterials |-> AiMaterial("a.png", 20, <<1, 0, 0>>)],
            <<AiMesh(0, <<<<0, 0, 0>>, <<1, 0, 0>>, <<0, 1, 0>>>>,
                        <<<<0, 1, 0>>, <<0, 1, 0>>, <<0, 1, 0>>>>,
                        <<>>,
                        <<<<0, 1, 2>>>>)>>)

\* The files the caller may name.  "missing.obj" does not exist; "corrupt.obj"
\* exists and cannot be parsed.
Filenames == {"missing.obj", "corrupt.obj", "tri.obj", "duo.obj", "plain.obj", "bare.obj"}
CapFilenames == {"missing.obj", "corrupt.obj", "big.obj"}
DrawFilenames == {"tri.obj", "duo.obj"}

\* AAssetManager_open(filename) != NULL.
AssetExists(filename) == filename # "missing.obj"

\* Importer.ReadFile / ReadFileFromMemory.
ReadFile(filename) ==
    CASE filename = "tri.obj" -> TriScene
      [] filename = "duo.obj" -> DuoScene
      [] filename = "plain.obj" -> PlainScene
      [] filename = "bare.obj" -> BareScene
      [] filename = "big.obj" -> BigScene
      [] OTHER -> NullScene

----------------------------------------------------------------------------
(* Construction. *)

\* vks::VertexLayout layout: position, normal, uv.
layout == <<"POSITION", "NORMAL", "UV">>

\* A default-constructed vks::Buffer / Texture2DArray: no handle, size 0.
NoBuffer == [created |-> FALSE, size |-> 0, mapped |-> FALSE, copied |-> 0]

\* Model::Dimension as Model's constructor leaves it.  size has no initialiser;
\* addModel assigns it after the first mesh, before the model is stored.
NewDimension ==
    [min |-> <<FLT_MAX, FLT_MAX, FLT_MAX>>,
     max |-> <<-FLT_MAX, -FLT_MAX, -FLT_MAX>>,
     size |-> <<0, 0, 0>>]

\* What a call leaves its caller: the operation, its return value (0 for a
\* void operation), the first undefined behaviour it executed ("none" if none;
\* "oob_read", "oob_write", "null_write" for memory, "zero_size" for a buffer
\* of no byte asked of the device), the
\* draws it recorded into the command buffer it was given, and the device
\* calls it made on the instance buffer.
Call(op, ret, ub) == [op |-> op, ret |-> ret, ub |-> ub, cmds |-> <<>>, device |-> <<>>]

Init ==
    /\ platform \in {"android", "desktop"}
    /\ instances = <<>>
    /\ instanceDatas = <<>>
    /\ indexCount = 0
    /\ vertexCount = 0
    /\ vertexBuffer = <<>>
    /\ indexBuffer = <<>>
    /\ aiMaterials = <<>>
    /\ models = <<>>
    /\ materials = <<>>
    /\ mapDic = <<>>
    /\ vertices = NoBuffer
    /\ indices = NoBuffer
    /\ instanceBuff = NoBuffer
    /\ materialsBuff = NoBuffer
    /\ texArray = [created |-> FALSE, layerCount |-> 0]
    /\ lastCall = Call("ModelGroup", 0, "none")
    /\ halted = FALSE

----------------------------------------------------------------------------
(* addModel *)

\* Floats of one component of a vertex (VertexLayout::stride counts bytes).
ComponentFloatCount(component) ==
    CASE component = "UV" -> 2
      [] component = "DUMMY_FLOAT" -> 1
      [] component = "DUMMY_VEC4" -> 4
      [] OTHER -> 3

\* layout.stride() over the first k components, then over all: bytes per vertex.
RECURSIVE StrideOf(_)
StrideOf(k) ==
    IF k = 0 THEN 0 ELSE StrideOf(k - 1) + ComponentFloatCount(layout[k]) * sizeofFloat

stride == StrideOf(Len(layout))

\* ComponentFloats as it would be if the position were written as read, its y
\* not negated.
ComponentFloatsUnflipped(component, pPos, pNormal, pTexCoord, pColor, pTangent, pBiTangent) ==
    CASE component = "POSITION" -> <<pPos[1], pPos[2], pPos[3]>>
      [] component = "NORMAL" -> <<pNormal[1], -pNormal[2], pNormal[3]>>
      [] component = "UV" -> <<pTexCoord[1], pTexCoord[2]>>
      [] component = "COLOR" -> <<pColor[1], pColor[2], pColor[3]>>
      [] component = "TANGENT" -> <<pTangent[1], pTangent[2], pTangent[3]>>
      [] component = "BITANGENT" -> <<pBiTangent[1], pBiTangent[2], pBiTangent[3]>>
      [] component = "DUMMY_FLOAT" -> <<0>>
      [] component = "DUMMY_VEC4" -> <<0, 0, 0, 0>>

\* The floats one layout component appends for a vertex (the switch of addModel).
ComponentFloats(component, pPos, pNormal, pTexCoord, pColor, pTangent, pBiTangent) ==
    CASE component = "POSITION" -> <<pPos[1], -pPos[2], pPos[3]>>
      [] component = "NORMAL" -> <<pNormal[1], -pNormal[2], pNormal[3]>>
      [] component = "UV" -> <<pTexCoord[1], pTexCoord[2]>>
      [] component = "COLOR" -> <<pColor[1], pColor[2], pColor[3]>>
      [] component = "TANGENT" -> <<pTangent[1], pTangent[2], pTangent[3]>>
      [] component = "BITANGENT" -> <<pBiTangent[1], pBiTangent[2], pBiTangent[3]>>
      [] component = "DUMMY_FLOAT" -> <<0>>
      [] component = "DUMMY_VEC4" -> <<0, 0, 0, 0>>

\* The loop over layout.components for vertex j of paiMesh, from component k on.
RECURSIVE PushVertex(_, _, _, _, _)
PushVertex(buf, k, paiMesh, j, pColor) ==
    IF k > Len(layout) THEN buf
    ELSE LET pTexCoord == IF paiMesh.mTextureCoords # <<>>
                          THEN paiMesh.mTextureCoords[j] ELSE Zero3D
             pTangent == IF paiMesh.mTangents # <<>> THEN paiMesh.mTangents[j] ELSE Zero3D
             pBiTangent == IF paiMesh.mBitangents # <<>>
                           THEN paiMesh.mBitangents[j] ELSE Zero3D
         IN PushVertex(buf \o ComponentFloats(layout[k], paiMesh.mVertices[j],
                                              paiMesh.mNormals[j], pTexCoord, pColor,
                                              pTangent, pBiTangent),
                       k + 1, paiMesh, j, pColor)

\* FoldDimension as it would be if it folded the position as it is written to
\* the vertex buffer, with y negated.
FoldDimensionFlipped(dim, pPos) ==
    [dim EXCEPT !.max = <<fmax(pPos[1], dim.max[1]), fmax(-pPos[2], dim.max[2]),
                          fmax(pPos[3], dim.max[3])>>,
                !.min = <<fmin(pPos[1], dim.min[1]), fmin(-pPos[2], dim.min[2]),
                          fmin(pPos[3], dim.min[3])>>]

\* model.dim after folding pPos into it.
FoldDimension(dim, pPos) ==
    [dim EXCEPT !.max = <<fmax(pPos[1], dim.max[1]), fmax(pPos[2], dim.max[2]),
                          fmax(pPos[3], dim.max[3])>>,
                !.min = <<fmin(pPos[1], dim.min[1]), fmin(pPos[2], dim.min[2]),
                          fmin(pPos[3], dim.min[3])>>]

\* The vertex loop of one mesh, from vertex j on.  st holds the members and
\* locals addModel is updating: vertexCount, indexCount, vertexBuffer,
\* indexBuffer and model.
RECURSIVE LoadVertices(_, _, _, _)
LoadVertices(st, paiMesh, j, pColor) ==
    IF j > Len(paiMesh.mVertices) THEN st
    ELSE LoadVertices(
            [st EXCEPT !.vertexBuffer = PushVertex(@, 1, paiMesh, j, pColor),
                       !.model.dim = FoldDimension(@, paiMesh.mVertices[j])],
            paiMesh, j + 1, pColor)

\* FaceTaken as it would be if faces with more than 3 indices were taken too.
FaceTakenAtLeast3(Face) == Len(Face) >= 3

\* Whether the face loop takes a face.
FaceTaken(Face) == Len(Face) = 3

\* TakeFace as it would be if the indices were stored re-based on the part's
\* first vertex.
TakeFaceRebased(st, Face, i) ==
    [st EXCEPT !.indexBuffer = @ \o <<Face[1] + st.model.parts[i].vertexBase,
                                      Face[2] + st.model.parts[i].vertexBase,
                                      Face[3] + st.model.parts[i].vertexBase>>,
               !.model.parts[i].indexCount = @ + 3,
               !.indexCount = @ + 3]

\* TakeFace as it would be without the `indexCount += 3` of the group.
TakeFaceNoGlobal(st, Face, i) ==
    [st EXCEPT !.indexBuffer = @ \o <<Face[1], Face[2], Face[3]>>,
               !.model.parts[i].indexCount = @ + 3]

\* The body of the face loop for a face it takes: three indices pushed, the
\* part's and the group's indexCount grown by 3.
TakeFace(st, Face, i) ==
    [st EXCEPT !.indexBuffer = @ \o <<Face[1], Face[2], Face[3]>>,
               !.model.parts[i].indexCount = @ + 3,
               !.indexCount = @ + 3]

\* The face loop of mesh i, from face j on.
RECURSIVE LoadFaces(_, _, _, _)
LoadFaces(st, paiMesh, i, j) ==
    IF j > Len(paiMesh.mFaces) THEN st
    ELSE LET Face == paiMesh.mFaces[j] IN
         IF ~FaceTaken(Face) THEN LoadFaces(st, paiMesh, i, j + 1)
         ELSE LoadFaces(TakeFace(st, Face, i), paiMesh, i, j + 1)

\* PartMaterialIdx as it would be without the asset's material base.
PartMaterialIdxLocal(paiMesh, materialOffset) == paiMesh.mMaterialIndex

\* materialIdx of a part.
PartMaterialIdx(paiMesh, materialOffset) == paiMesh.mMaterialIndex + materialOffset

\* vertexBase of a part: the group's vertexCount when its mesh is reached.
PartVertexBase(st) == st.vertexCount

\* PartIndexBase as it would be if the index counter restarted with each asset
\* (indexCount is the group's counter before the call).
PartIndexBaseLocal(st) == st.indexCount - indexCount

\* indexBase of a part: the group's indexCount when its mesh is reached.
PartIndexBase(st) == st.indexCount

\* GrowVertexCount as it would be without the `vertexCount +=` of the group.
VertexCountKept(n, paiMesh) == n

\* The group's vertexCount after `vertexCount += paiMesh->mNumVertices`.
GrowVertexCount(n, paiMesh) == n + Len(paiMesh.mVertices)

\* One round of the mesh loop: mesh i of pScene.
LoadMesh(st, pScene, i, materialOffset) ==
    LET paiMesh == pScene.mMeshes[i]
        part == [vertexBase |-> PartVertexBase(st), vertexCount |-> 0,
                 indexBase |-> PartIndexBase(st), indexCount |-> 0,
                 materialIdx |-> PartMaterialIdx(paiMesh, materialOffset)]
        st1 == [st EXCEPT !.model.parts[i] = part,
                          !.vertexCount = GrowVertexCount(@, paiMesh)]
        pColor == pScene.mMaterials[paiMesh.mMaterialIndex + 1].diffuse
        st2 == LoadVertices(st1, paiMesh, 1, pColor)
        st3 == [st2 EXCEPT !.model.dim.size =
                              <<st2.model.dim.max[1] - st2.model.dim.min[1],
                                st2.model.dim.max[2] - st2.model.dim.min[2],
                                st2.model.dim.max[3] - st2.model.dim.min[3]>>,
                           !.model.parts[i].vertexCount = Len(paiMesh.mVertices)]
    IN LoadFaces(st3, paiMesh, i, 1)

RECURSIVE LoadMeshes(_, _, _, _)
LoadMeshes(st, pScene, i, materialOffset) ==
    IF i > Len(pScene.mMeshes) THEN st
    ELSE LoadMeshes(LoadMesh(st, pScene, i, materialOffset), pScene, i + 1, materialOffset)

\* CopyMaterials as it would be if the copies were inserted at the front.
CopyMaterialsFront(mats, pScene) == pScene.mMaterials \o mats

\* aiMaterials after the CopyPropertyList loop.
CopyMaterials(mats, pScene) == mats \o pScene.mMaterials

\* `return false` of the Android branch, as the int addModel returns.
AssetOpenFailed == 0
\* The return value of the `else` branch.
ImportFailed == -1

\* int addModel(filename, flags).  Sequences are indexed from 1; the indices
\* the program stores and returns (model, part, material, vertex) are the
\* code's, from 0.
AddModel(filename) ==
    /\ ~halted
    /\ IF platform = "android" /\ ~AssetExists(filename)
       THEN /\ lastCall' = Call("addModel", AssetOpenFailed, "none")
            /\ UNCHANGED loadVars
       ELSE LET pScene == ReadFile(filename) IN
            IF ~pScene.null
            THEN LET modelIndex == Len(models)
                     materialOffset == Len(aiMaterials)
                     zeroPart == [vertexBase |-> 0, vertexCount |-> 0, indexBase |-> 0,
                                  indexCount |-> 0, materialIdx |-> 0]
                     st0 == [vertexCount |-> vertexCount, indexCount |-> indexCount,
                             vertexBuffer |-> vertexBuffer, indexBuffer |-> indexBuffer,
                             model |-> [parts |-> [i \in 1..Len(pScene.mMeshes) |-> zeroPart],
                                        dim |-> NewDimension]]
                     st == LoadMeshes(st0, pScene, 1, materialOffset)
                 IN /\ aiMaterials' = CopyMaterials(aiMaterials, pScene)
                    /\ vertexCount' = st.vertexCount
                    /\ indexCount' = st.indexCount
                    /\ vertexBuffer' = st.vertexBuffer
                    /\ indexBuffer' = st.indexBuffer
                    /\ models' = Append(models, st.model)
                    /\ lastCall' = Call("addModel", modelIndex, "none")
            ELSE /\ lastCall' = Call("addModel", ImportFailed, "none")
                 /\ UNCHANGED loadVars
    /\ UNCHANGED <<platform, instances, instanceDatas, gpuVars, halted>>

----------------------------------------------------------------------------
(* prepare and the buffer builders *)

\* std::find(mapDic.begin(), mapDic.end(), map) as a position from 0, or
\* Len(mapDic) for mapDic.end().
RECURSIVE FindFrom(_, _, _)
FindFrom(dic, map, k) ==
    IF k > Len(dic) THEN Len(dic)
    ELSE IF dic[k] = map THEN k - 1
    ELSE FindFrom(dic, map, k + 1)

Find(dic, map) == FindFrom(dic, map, 1)

\* Registers as it would be without the std::find test.
RegistersAnyPath(dic, mat) == mat.texDiffuse # ""

\* Whether the first loop of prepare appends the diffuse path of mat to dic.
Registers(dic, mat) == mat.texDiffuse # "" /\ Find(dic, mat.texDiffuse) = Len(dic)

\* RegisterMap as it would be if a new path were inserted at the front.
RegisterMapFront(dic, mat) == IF Registers(dic, mat) THEN <<mat.texDiffuse>> \o dic ELSE dic

\* One round of the first loop of prepare.
RegisterMap(dic, mat) == IF Registers(dic, mat) THEN Append(dic, mat.texDiffuse) ELSE dic

\* The first loop of prepare over materials lo..hi, in order: the lookup table
\* of map paths.  The rounds lo..hi are run as lo..mid, then mid+1..hi, and
\* the table after lo..mid is evaluated (its length taken) before the second
\* half starts: both only keep TLC's evaluation shallow on long lists.
RECURSIVE BuildMapDic(_, _, _, _)
BuildMapDic(dic, mats, lo, hi) ==
    IF lo > hi THEN dic
    ELSE IF lo = hi THEN RegisterMap(dic, mats[lo])
    ELSE LET mid == (lo + hi) \div 2
             left == BuildMapDic(dic, mats, lo, mid)
         IN IF Len(left) >= 0 THEN BuildMapDic(left, mats, mid + 1, hi) ELSE left

\* A default-initialised Material (the member initialisers of the struct).
NewMaterial ==
    [Ka |-> <<0, 0, 0>>, Kd |-> <<0, 0, 0>>, Ks |-> <<0, 0, 0>>, Ke |-> <<0, 0, 0>>,
     Ma |-> 0, Md |-> 0, Me |-> 0, Ns |-> 0,
     Ni |-> Frac(3, 2), d |-> Frac(1, 1), Nm |-> Frac(5, 1000), Nr |-> Frac(1, 1)]

\* Md of the material built from a diffuse path: the position std::find gives,
\* or the initial value when the path is not in the table.
ResolveMd(dic, mapFile, initial) ==
    IF Find(dic, mapFile) # Len(dic) THEN Find(dic, mapFile) ELSE initial

\* Roughness as it would be with the quotient inverted.
RoughnessInverted(Ns) == IF Ns = 0 THEN Frac(2, 10) ELSE Frac(Ns, 10)

\* Nr from the shininess.
Roughness(Ns) == IF Ns = 0 THEN Frac(2, 10) ELSE Frac(10, Ns)

\* One round of the second loop of prepare: the Material built from aiMat.
PackMaterial(aiMat, dic) ==
    [NewMaterial EXCEPT !.Ka = aiMat.ambient, !.Kd = aiMat.diffuse,
                        !.Ks = aiMat.specular, !.Ke = aiMat.emissive,
                        !.Ns = aiMat.shininess,
                        !.Nr = Roughness(aiMat.shininess),
                        !.Nm = Frac(9, 10),
                        !.Md = ResolveMd(dic, aiMat.texDiffuse, @)]

\* materials after the second loop of prepare.
PackMaterials(packed, mats, dic) ==
    packed \o [i \in 1..Len(mats) |-> PackMaterial(mats[i], dic)]

\* Entries the material buffer is created for.
MaterialCapacity == 256

\* updateInstancesBuffer on buffer buff: the memcpy of the whole instanceDatas.
\* Writing through a null mapped pointer or past the end of the mapping is
\* undefined behaviour.
CopyInstances(buff, datas) ==
    LET bytes == Len(datas) * sizeofInstanceData IN
    [buff |-> [buff EXCEPT !.copied = bytes],
     ub |-> IF bytes > 0 /\ ~buff.mapped THEN "null_write"
            ELSE IF bytes > buff.size THEN "oob_write"
            ELSE "none"]

\* updateMaterialBuffer on buffer buff.
CopyMaterialTable(buff, packed) ==
    LET bytes == sizeofMaterial * Len(packed) IN
    [buff |-> [buff EXCEPT !.copied = bytes],
     ub |-> IF bytes > 0 /\ ~buff.mapped THEN "null_write"
            ELSE IF bytes > buff.size THEN "oob_write"
            ELSE "none"]

\* The first undefined behaviour of a call, given those of its steps in order.
RECURSIVE FirstUb(_)
FirstUb(ubs) ==
    IF ubs = <<>> THEN "none"
    ELSE IF ubs[1] # "none" THEN ubs[1] ELSE FirstUb(Tail(ubs))

\* device->createBuffer(usage, properties, &buffer, size): a buffer of size
\* bytes, not mapped.  Vulkan requires size > 0; asking for 0 bytes is invalid
\* usage, which a driver may reject (VK_CHECK_RESULT then stops the process)
\* or accept.
CreateBuffer(size) ==
    [buff |-> [created |-> TRUE, size |-> size, mapped |-> FALSE, copied |-> 0],
     ub |-> IF size = 0 THEN "zero_size" ELSE "none"]

\* buildInstanceBuffer: the device calls it makes, the buffer it leaves.
InstanceBufferBuilt(buff, datas) ==
    LET release == IF buff.size > 0 THEN <<"vkDeviceWaitIdle", "destroy">> ELSE <<>>
        size == Len(datas) * sizeofInstanceData
        fresh == CreateBuffer(size)
        copy == CopyInstances([fresh.buff EXCEPT !.mapped = TRUE], datas)
    IN [buff |-> copy.buff,
        log |-> release \o <<"createBuffer", "map", "memcpy">>,
        ub |-> FirstUb(<<fresh.ub, copy.ub>>)]

\* buildMaterialBuffer: a buffer of MaterialCapacity entries, mapped, then
\* updateMaterialBuffer.
MaterialBufferBuilt(packed) ==
    CopyMaterialTable([created |-> TRUE, size |-> sizeofMaterial * MaterialCapacity,
                       mapped |-> TRUE, copied |-> 0],
                      packed)

\* Undefined behaviour either kills the process or lets it run on.
Outcome(ub) == IF ub = "none" THEN halted' = FALSE ELSE halted' \in BOOLEAN

\* Whether prepare returns before the texture array and the two builders.
SkipsBuilders(dic) == Len(dic) = 0

\* void prepare().
Prepare ==
    /\ ~halted
    /\ LET dic == BuildMapDic(<<>>, aiMaterials, 1, Len(aiMaterials))
           packed == PackMaterials(materials, aiMaterials, dic)
           vBufferSize == Len(vertexBuffer) * sizeofFloat
           iBufferSize == Len(indexBuffer) * sizeofU32
           vert == CreateBuffer(vBufferSize)
           ind == CreateBuffer(iBufferSize)
           inst == InstanceBufferBuilt(instanceBuff, instanceDatas)
           mat == MaterialBufferBuilt(packed)
           upload == FirstUb(<<vert.ub, ind.ub>>)
           ub == FirstUb(<<upload, inst.ub, mat.ub>>)
       IN /\ mapDic' = dic
          /\ materials' = packed
          /\ vertices' = [vert.buff EXCEPT !.copied = vBufferSize]
          /\ indices' = [ind.buff EXCEPT !.copied = iBufferSize]
          /\ IF SkipsBuilders(dic)
             THEN /\ UNCHANGED <<texArray, instanceBuff, materialsBuff>>
                  /\ lastCall' = Call("prepare", 0, upload)
                  /\ Outcome(upload)
             ELSE /\ texArray' = [created |-> TRUE, layerCount |-> Len(dic)]
                  /\ instanceBuff' = inst.buff
                  /\ materialsBuff' = mat.buff
                  /\ lastCall' = [Call("prepare", 0, ub) EXCEPT !.device = inst.log]
                  /\ Outcome(ub)
    /\ UNCHANGED <<platform, instances, instanceDatas, loadVars>>

\* void buildMaterialBuffer().
BuildMaterialBuffer ==
    /\ ~halted
    /\ LET mat == MaterialBufferBuilt(materials)
       IN /\ materialsBuff' = mat.buff
          /\ lastCall' = Call("buildMaterialBuffer", 0, mat.ub)
          /\ Outcome(mat.ub)
    /\ UNCHANGED <<platform, instances, instanceDatas, loadVars, materials,
                   mapDic, vertices, indices, instanceBuff, texArray>>

\* void updateMaterialBuffer().
UpdateMaterialBuffer ==
    /\ ~halted
    /\ LET mat == CopyMaterialTable(materialsBuff, materials)
       IN /\ materialsBuff' = mat.buff
          /\ lastCall' = Call("updateMaterialBuffer", 0, mat.ub)
          /\ Outcome(mat.ub)
    /\ UNCHANGED <<platform, instances, instanceDatas, loadVars, materials,
                   mapDic, vertices, indices, instanceBuff, texArray>>

\* void buildInstanceBuffer().
BuildInstanceBuffer ==
    /\ ~halted
    /\ LET inst == InstanceBufferBuilt(instanceBuff, instanceDatas)
       IN /\ instanceBuff' = inst.buff
          /\ lastCall' = [Call("buildInstanceBuffer", 0, inst.ub) EXCEPT !.device = inst.log]
          /\ Outcome(inst.ub)
    /\ UNCHANGED <<platform, instances, instanceDatas, loadVars, materials,
                   mapDic, vertices, indices, materialsBuff, texArray>>

\* void updateInstancesBuffer().
UpdateInstancesBuffer ==
    /\ ~halted
    /\ LET inst == CopyInstances(instanceBuff, instanceDatas)
       IN /\ instanceBuff' = inst.buff
          /\ lastCall' = Call("updateInstancesBuffer", 0, inst.ub)
          /\ Outcome(inst.ub)
    /\ UNCHANGED <<platform, instances, instanceDatas, loadVars, materials,
                   mapDic, vertices, indices, materialsBuff, texArray>>

----------------------------------------------------------------------------
(* addInstance *)

\* The (model, part) pairs of the loaded models, as the caller names them.
ValidKeys ==
    UNION {{<<m, p>> : p \in 0..(Len(models[m + 1].parts) - 1)} :
           m \in 0..(Len(models) - 1)}

\* PushInstances as it would be with the two fields of the pushed DrawCommand
\* given in the wrong order.
PushInstancesSwapped(insts, modelIdx, partIdx, n) ==
    insts \o [i \in 1..n |-> [modelIndex |-> partIdx, partIndex |-> modelIdx]]

\* instances after n push_back({modelIdx, partIdx}).
PushInstances(insts, modelIdx, partIdx, n) ==
    insts \o [i \in 1..n |-> [modelIndex |-> modelIdx, partIndex |-> partIdx]]

\* PushDatas as it would be if the datas were inserted at the front.
PushDatasFront(instDatas, datas) == datas \o instDatas

\* instanceDatas after push_back(datas[i]) for every i.
PushDatas(instDatas, datas) == instDatas \o datas

\* uint32_t addInstance(modelIdx, partIdx, std::vector<InstanceData> datas).
AddInstanceList(modelIdx, partIdx, datas) ==
    /\ ~halted
    /\ LET idx == Len(instances)
       IN /\ instances' = PushInstances(instances, modelIdx, partIdx, Len(datas))
          /\ instanceDatas' = PushDatas(instanceDatas, datas)
          /\ lastCall' = Call("addInstance", idx, "none")
    /\ UNCHANGED <<platform, loadVars, gpuVars, halted>>

\* uint32_t addInstance(modelIdx, partIdx, InstanceData data).
AddInstanceData(modelIdx, partIdx, data) ==
    /\ ~halted
    /\ LET idx == Len(instances)
       IN /\ instances' = PushInstances(instances, modelIdx, partIdx, 1)
          /\ instanceDatas' = PushDatas(instanceDatas, <<data>>)
          /\ lastCall' = Call("addInstance", idx, "none")
    /\ UNCHANGED <<platform, loadVars, gpuVars, halted>>

\* TransformData as it would be without the lookup of the part's material:
\* materialIndex keeps the initialiser of InstanceData.
TransformDataDefault(modelIdx, partIdx, modelMat) ==
    [materialIndex |-> 0, modelMat |-> modelMat]

\* The InstanceData the bare-transform overload builds.
TransformData(modelIdx, partIdx, modelMat) ==
    [materialIndex |-> models[modelIdx + 1].parts[partIdx + 1].materialIdx,
     modelMat |-> modelMat]

\* uint32_t addInstance(modelIdx, partIdx, const glm::mat4& modelMat).  The
\* caller names a part of a loaded model.
AddInstanceTransform(modelIdx, partIdx, modelMat) ==
    /\ ~halted
    /\ <<modelIdx, partIdx>> \in ValidKeys
    /\ LET idx == Len(instances)
       IN /\ instances' = PushInstances(instances, modelIdx, partIdx, 1)
          /\ instanceDatas' = PushDatas(instanceDatas,
                                        <<TransformData(modelIdx, partIdx, modelMat)>>)
          /\ lastCall' = Call("addInstance", idx, "none")
    /\ UNCHANGED <<platform, loadVars, gpuVars, halted>>

----------------------------------------------------------------------------
(* buildCommandBuffer *)

\* vkCmdDrawIndexed(cmdBuff, indexCount, instanceCount, firstIndex,
\* vertexOffset, firstInstance) for the part (modIdx, partIdx).
DrawIndexed(modIdx, partIdx, instCount, instOffset) ==
    LET part == models[modIdx + 1].parts[partIdx + 1] IN
    [indexCount |-> part.indexCount, instanceCount |-> instCount,
     firstIndex |-> part.indexBase, vertexOffset |-> part.vertexBase,
     firstInstance |-> instOffset]

\* KeyChanges as it would be if the part index were left out of the test.
KeyChangesModelOnly(modIdx, partIdx, inst) == modIdx # inst.modelIndex

\* Whether the loop closes the current run at instance inst.
KeyChanges(modIdx, partIdx, inst) ==
    modIdx # inst.modelIndex \/ partIdx # inst.partIndex

\* The loop of buildCommandBuffer from i (the code's i, from 0) on, then the
\* flush after it: the draws recorded.
RECURSIVE EmitDraws(_, _, _, _, _, _)
EmitDraws(cmds, i, modIdx, partIdx, instCount, instOffset) ==
    IF i >= Len(instances)
    THEN IF instCount = 0 THEN cmds
         ELSE Append(cmds, DrawIndexed(modIdx, partIdx, instCount, instOffset))
    ELSE IF KeyChanges(modIdx, partIdx, instances[i + 1])
         THEN EmitDraws(Append(cmds, DrawIndexed(modIdx, partIdx, instCount, instOffset)),
                        i + 1, instances[i + 1].modelIndex, instances[i + 1].partIndex,
                        1, i)
         ELSE EmitDraws(cmds, i + 1, modIdx, partIdx, instCount + 1, instOffset)

\* void buildCommandBuffer(VkCommandBuffer cmdBuff).  instances[0] is read
\* before the list is known to have an element: on an empty list that read is
\* out of bounds.  It either kills the process or yields some value, after
\* which the loop does not run and instCount == 0 returns.
BuildCommandBuffer ==
    /\ ~halted
    /\ IF Len(instances) = 0
       THEN /\ lastCall' = Call("buildCommandBuffer", 0, "oob_read")
            /\ Outcome("oob_read")
       ELSE /\ lastCall' = [Call("buildCommandBuffer", 0, "none") EXCEPT
                                !.cmds = EmitDraws(<<>>, 0, instances[1].modelIndex,
                                                   instances[1].partIndex, 0, 0)]
            /\ UNCHANGED halted
    /\ UNCHANGED <<platform, instances, instanceDatas, loadVars, gpuVars>>

----------------------------------------------------------------------------
(* The callers.  Each specification lets a caller use a group of operations *)
(* with inputs from small sets.  addModel writes loadVars only, the          *)
(* addInstance overloads write instances and instanceDatas only, prepare and *)
(* the build/update operations write gpuVars only, buildCommandBuffer writes *)
(* no member; so an operation left out of a specification cannot change what *)
(* the operations in it write.  Callers name parts of loaded models, as      *)
(* instances are added after their model is loaded.                          *)

\* The InstanceData values and matrices callers pass.
InstanceDataSet == {[materialIndex |-> 7, modelMat |-> "scale"]}
Matrices == {"translate"}
DataLists == UNION {[1..n -> InstanceDataSet] : n \in 0..MaxDatas}
InstFilenames == {"duo.obj"}

\* Loading assets and preparing the group.
Next ==
    \/ \E f \in Filenames :
          /\ Len(models) < MaxModels \/ ReadFile(f).null
          /\ AddModel(f)
    \/ /\ Len(materials) + Len(aiMaterials) <= MaxPacked
       /\ Prepare
    \/ BuildMaterialBuffer
    \/ UpdateMaterialBuffer

Spec == Init /\ [][Next]_vars

\* The desktop build alone.
InitDesktop == Init /\ platform = "desktop"

\* Adding instances.
NextInst ==
    \/ \E f \in InstFilenames :
          /\ Len(models) < MaxInstModels
          /\ AddModel(f)
    \/ \E k \in ValidKeys, datas \in DataLists :
          /\ Len(instances) + Len(datas) <= MaxInstances
          /\ AddInstanceList(k[1], k[2], datas)
    \/ \E k \in ValidKeys, data \in InstanceDataSet :
          /\ Len(instances) < MaxInstances
          /\ AddInstanceData(k[1], k[2], data)
    \/ \E k \in ValidKeys, modelMat \in Matrices :
          /\ Len(instances) < MaxInstances
          /\ AddInstanceTransform(k[1], k[2], modelMat)

SpecInst == InitDesktop /\ [][NextInst]_vars

\* Adding instances and keeping the instance buffer up to date.
NextBuf ==
    \/ \E f \in InstFilenames :
          /\ Len(models) < MaxBufModels
          /\ AddModel(f)
    \/ \E k \in ValidKeys, datas \in DataLists :
          /\ Len(instances) + Len(datas) <= MaxBufInstances
          /\ AddInstanceList(k[1], k[2], datas)
    \/ \E k \in ValidKeys :
          /\ Len(instances) < MaxBufInstances
          /\ \E modelMat \in Matrices : AddInstanceTransform(k[1], k[2], modelMat)
    \/ BuildInstanceBuffer
    \/ UpdateInstancesBuffer

SpecBuf == InitDesktop /\ [][NextBuf]_vars

\* Recording the draws of an instance list.
NextDraw ==
    \/ \E f \in DrawFilenames :
          /\ Len(models) < MaxDrawModels
          /\ AddModel(f)
    \/ \E k \in ValidKeys :
          /\ Len(instances) < MaxDrawInstances
          /\ \E modelMat \in Matrices : AddInstanceTransform(k[1], k[2], modelMat)
    \/ BuildCommandBuffer

SpecDraw == InitDesktop /\ [][NextDraw]_vars

\* Loading assets with many materials.
NextCap ==
    \/ \E f \in CapFilenames :
          /\ Len(models) < MaxCapModels \/ ReadFile(f).null
          /\ AddModel(f)
    \/ /\ Len(materials) + Len(aiMaterials) <= MaxCapPacked
       /\ Prepare
    \/ BuildMaterialBuffer
    \/ UpdateMaterialBuffer

SpecCap == Init /\ [][NextCap]_vars

----------------------------------------------------------------------------
(* Draw batching: C1, C2 (under SpecDraw). *)

\* The first positions of the maximal runs of equal entries of insts.
RunStarts(insts) == {i \in 1..Len(insts) : i = 1 \/ insts[i] # insts[i - 1]}

\* The last position of the maximal run that starts at i.
RunEnd(insts, i) ==
    CHOOSE j \in i..Len(insts) :
        /\ \A k \in i..j : insts[k] = insts[i]
        /\ j = Len(insts) \/ insts[j + 1] # insts[i]

\* The k-th run start, in list order.
NthRunStart(insts, k) ==
    CHOOSE i \in RunStarts(insts) : Cardinality({j \in RunStarts(insts) : j < i}) = k - 1

\* One draw per maximal run, in list order, with the geometry of the run's part.
ExpectedDraws(insts) ==
    [k \in 1..Cardinality(RunStarts(insts)) |->
        LET i == NthRunStart(insts, k)
            part == models[insts[i].modelIndex + 1].parts[insts[i].partIndex + 1]
        IN [indexCount |-> part.indexCount,
            instanceCount |-> RunEnd(insts, i) - i + 1,
            firstIndex |-> part.indexBase,
            vertexOffset |-> part.vertexBase,
            firstInstance |-> i - 1]]

\* C1: on a non-empty instance list, sorted or not, buildCommandBuffer records
\* exactly one indexed draw per maximal contiguous run of equal (modelIndex,
\* partIndex), in list order, with instanceCount the run length, firstInstance
\* the index of the run's first instance, and indexCount / firstIndex /
\* vertexOffset those of the run's part; equal keys that are not adjacent are
\* not merged.
C1_OneDrawPerRun ==
    (lastCall.op = "buildCommandBuffer" /\ instances # <<>>)
        => /\ lastCall.ub = "none"
           /\ lastCall.cmds = ExpectedDraws(instances)

\* The instance list [(M0,P0),(M0,P0),(M1,P1),(M0,P0)] has been recorded as
\* three draws with instance counts [2,1,1] and first instances [0,2,3].
C1_Witness ==
    /\ lastCall.op = "buildCommandBuffer"
    /\ [i \in 1..Len(instances) |-> <<instances[i].modelIndex, instances[i].partIndex>>]
          = <<<<0, 0>>, <<0, 0>>, <<1, 1>>, <<0, 0>>>>
    /\ [k \in 1..Len(lastCall.cmds) |-> lastCall.cmds[k].instanceCount] = <<2, 1, 1>>
    /\ [k \in 1..Len(lastCall.cmds) |-> lastCall.cmds[k].firstInstance] = <<0, 2, 3>>

\* C2: on an empty instance list buildCommandBuffer records no draw, raises no
\* error and reads no element of instances or models.
C2_EmptyListIsNoOp ==
    (lastCall.op = "buildCommandBuffer" /\ instances = <<>>)
        => /\ lastCall.cmds = <<>>
           /\ lastCall.ub = "none"
           /\ ~halted

----------------------------------------------------------------------------
(* Loading and preparing: C3 .. C6 (under Spec). *)

\* Whether addModel(f) reaches the importer and the importer returns no scene.
ImporterFails(f) ==
    /\ platform = "android" => AssetExists(f)
    /\ ReadFile(f).null

\* C3: when the importer fails, addModel returns -1, which is no valid model
\* index, and vertexBuffer, indexBuffer, vertexCount, indexCount, aiMaterials,
\* models, instances and instanceDatas are as before the call.
C3_FailedImportChangesNothing ==
    [][\A f \in Filenames :
          (ImporterFails(f) /\ AddModel(f))
              => /\ lastCall'.ret = -1
                 /\ lastCall'.ret \notin 0..(Len(models') - 1)
                 /\ UNCHANGED <<vertexBuffer, indexBuffer, vertexCount, indexCount,
                                aiMaterials, models, instances, instanceDatas>>]_vars

\* An import has failed in a group that already holds a loaded model.
C3_Witness ==
    /\ lastCall.op = "addModel"
    /\ lastCall.ret = -1
    /\ Len(models) >= 1
    /\ Len(indexBuffer) > 0

\* The parts of all models, in load order.
RECURSIVE AllParts(_)
AllParts(ms) == IF ms = <<>> THEN <<>> ELSE ms[1].parts \o AllParts(Tail(ms))

RECURSIVE Sum(_)
Sum(ns) == IF ns = <<>> THEN 0 ELSE ns[1] + Sum(Tail(ns))

SumIndexCount == Sum([k \in 1..Len(AllParts(models)) |-> AllParts(models)[k].indexCount])
SumVertexCount == Sum([k \in 1..Len(AllParts(models)) |-> AllParts(models)[k].vertexCount])

\* C4: after any sequence of addModel calls, failed ones included, the sum of
\* indexCount over all parts equals the group's indexCount and the length of
\* the index buffer, and the sum of vertexCount over all parts equals the
\* group's vertexCount.
C4_CountersAreSums ==
    /\ SumIndexCount = indexCount
    /\ SumIndexCount = Len(indexBuffer)
    /\ SumVertexCount = vertexCount

\* Two assets are loaded, one of them with faces that are skipped, and the
\* last addModel failed.
C4_Witness ==
    /\ Len(models) = 2
    /\ lastCall.op = "addModel" /\ lastCall.ret = -1
    /\ indexCount >= 9
    /\ \E m \in 1..2 : Len(models[m].parts) = 2

\* The Material the last prepare built from aiMaterials[i]: prepare appends one
\* Material per entry of aiMaterials, in order.
PreparedMaterial(i) == materials[Len(materials) - Len(aiMaterials) + i]

\* C5: after prepare, mapDic holds no path twice and no empty path, and every
\* material with a non-empty diffuse path has as Md the position of that path
\* in mapDic, so that materials with the same path, of the same asset or not,
\* have the same Md.
C5_RegistryIsUniqueAndShared ==
    lastCall.op = "prepare"
        => /\ \A i, j \in 1..Len(mapDic) : i # j => mapDic[i] # mapDic[j]
           /\ \A i \in 1..Len(mapDic) : mapDic[i] # ""
           /\ \A i \in 1..Len(aiMaterials) :
                 aiMaterials[i].texDiffuse # ""
                     => /\ PreparedMaterial(i).Md < Len(mapDic)
                        /\ mapDic[PreparedMaterial(i).Md + 1] = aiMaterials[i].texDiffuse
           /\ \A i, j \in 1..Len(aiMaterials) :
                 (aiMaterials[i].texDiffuse # ""
                     /\ aiMaterials[i].texDiffuse = aiMaterials[j].texDiffuse)
                     => PreparedMaterial(i).Md = PreparedMaterial(j).Md

\* prepare has run on two assets that share a diffuse path, which is not the
\* first registered one.
C5_Witness ==
    /\ lastCall.op = "prepare"
    /\ Len(models) = 2
    /\ Len(models[1].parts) = 2 /\ Len(models[2].parts) = 1
    /\ Len(aiMaterials) = 4
    /\ aiMaterials[3].texDiffuse = aiMaterials[4].texDiffuse
    /\ PreparedMaterial(4).Md = 1

\* C6: after prepare, a material without diffuse path has an Md that is the
\* registry position of no registered path.
C6_NoTextureHasSentinel ==
    lastCall.op = "prepare"
        => \A i \in 1..Len(aiMaterials) :
              aiMaterials[i].texDiffuse = ""
                  => PreparedMaterial(i).Md \notin 0..(Len(mapDic) - 1)

----------------------------------------------------------------------------
(* The material table: C7 (under SpecCap). *)

\* C7: when more materials are loaded than the material buffer has entries,
\* building the table stops with an error before anything is copied: no more
\* than MaterialCapacity entries are ever written to the buffer.
C7_CapacityIsEnforced ==
    (lastCall.op = "prepare" /\ Len(aiMaterials) > MaterialCapacity)
        => /\ lastCall.ub = "none"
           /\ materialsBuff.copied <= sizeofMaterial * MaterialCapacity

----------------------------------------------------------------------------
(* The instance list: C8 .. C10 (under SpecInst). *)

\* instances and instanceDatas grow by the pairs (key, datas[j]), in order,
\* after the pairs they held.
AppendsPairs(key, datas) ==
    /\ Len(instances') = Len(instances) + Len(datas)
    /\ Len(instanceDatas') = Len(instanceDatas) + Len(datas)
    /\ \A i \in 1..Len(instances) :
          instances'[i] = instances[i] /\ instanceDatas'[i] = instanceDatas[i]
    /\ \A j \in 1..Len(datas) :
          /\ instances'[Len(instances) + j] = [modelIndex |-> key[1], partIndex |-> key[2]]
          /\ instanceDatas'[Len(instanceDatas) + j] = datas[j]

\* C8: instances and instanceDatas always have the same length, and every
\* addInstance step puts the key and the data it appends together at the
\* same indices, leaving the earlier pairs where they were.
C8_ParallelSequences ==
    /\ [](Len(instances) = Len(instanceDatas))
    /\ [][/\ \A k \in ValidKeys, datas \in DataLists :
               AddInstanceList(k[1], k[2], datas) => AppendsPairs(k, datas)
          /\ \A k \in ValidKeys, data \in InstanceDataSet :
               AddInstanceData(k[1], k[2], data) => AppendsPairs(k, <<data>>)
          /\ \A k \in ValidKeys, modelMat \in Matrices :
               AddInstanceTransform(k[1], k[2], modelMat)
                   => AppendsPairs(k, <<[materialIndex |->
                                            models[k[1] + 1].parts[k[2] + 1].materialIdx,
                                        modelMat |-> modelMat]>>)]_vars

\* Instances of two different parts have been added by three calls, one of
\* them with a list of two.
C8_Witness ==
    /\ Len(instances) = 3
    /\ instances[1] = instances[2]
    /\ instances[3].partIndex # instances[1].partIndex
    /\ instanceDatas[1] \in InstanceDataSet
    /\ instanceDatas[3] \notin InstanceDataSet
    /\ lastCall.op = "addInstance" /\ lastCall.ret = 2

\* What an addInstance call with n data items must leave: the old length
\* returned, n entries appended, each with the given key, the old entries of
\* both sequences untouched.
ReturnsStartOfRun(key, n) ==
    /\ lastCall'.ret = Len(instances)
    /\ Len(instances') = Len(instances) + n
    /\ Len(instanceDatas') = Len(instanceDatas) + n
    /\ \A j \in (Len(instances) + 1)..Len(instances') :
          instances'[j].modelIndex = key[1] /\ instances'[j].partIndex = key[2]
    /\ SubSeq(instances', 1, Len(instances)) = instances
    /\ SubSeq(instanceDatas', 1, Len(instanceDatas)) = instanceDatas

\* C9: every addInstance overload returns the length the instance list had
\* before the call, appends one entry per data item (one for a single data or
\* a bare transform, none for an empty list), each with the given (modelIdx,
\* partIdx), and leaves the earlier instances and instance datas unchanged.
C9_AddInstanceReturnsStart ==
    [][/\ \A k \in ValidKeys, datas \in DataLists :
            AddInstanceList(k[1], k[2], datas) => ReturnsStartOfRun(k, Len(datas))
       /\ \A k \in ValidKeys, data \in InstanceDataSet :
            AddInstanceData(k[1], k[2], data) => ReturnsStartOfRun(k, 1)
       /\ \A k \in ValidKeys, modelMat \in Matrices :
            AddInstanceTransform(k[1], k[2], modelMat) => ReturnsStartOfRun(k, 1)]_vars

\* A call has appended a run of two to a list that held one instance and
\* returned 1.
C9_Witness ==
    /\ lastCall.op = "addInstance"
    /\ lastCall.ret = 1
    /\ Len(instances) = 3
    /\ instances[2] = instances[3]
    /\ instances[2].partIndex = 1

\* C10: addInstance with a bare transform, for a part of a loaded model,
\* stores the materialIdx of that part and the given matrix.
C10_TransformTakesPartMaterial ==
    [][\A k \in ValidKeys, modelMat \in Matrices :
          AddInstanceTransform(k[1], k[2], modelMat)
              => /\ instanceDatas'[Len(instanceDatas')].materialIndex
                       = models[k[1] + 1].parts[k[2] + 1].materialIdx
                 /\ instanceDatas'[Len(instanceDatas')].modelMat = modelMat]_vars

\* A bare transform has been added for the first part of the asset, whose
\* material is the asset's third.
C10_Witness ==
    /\ lastCall.op = "addInstance"
    /\ instances # <<>>
    /\ instances[Len(instances)] = [modelIndex |-> 0, partIndex |-> 0]
    /\ instanceDatas[Len(instanceDatas)] = [materialIndex |-> 2, modelMat |-> "translate"]

----------------------------------------------------------------------------
(* What a successful addModel appends: C11, C13, C14, C16, C18, C19 (under  *)
(* Spec).                                                                   *)

\* Whether addModel(f) reaches the importer and the importer returns a scene.
ImporterSucceeds(f) ==
    /\ platform = "android" => AssetExists(f)
    /\ ~ReadFile(f).null

\* The faces of a mesh that have exactly three indices, in face order.
Triangles(paiMesh) == SelectSeq(paiMesh.mFaces, LAMBDA F : Len(F) = 3)

RECURSIVE Flatten(_)
Flatten(seqs) == IF seqs = <<>> THEN <<>> ELSE seqs[1] \o Flatten(Tail(seqs))

\* The indices of the three-index faces of a scene, mesh after mesh.
TriangleIndices(pScene) ==
    Flatten([i \in 1..Len(pScene.mMeshes) |-> Flatten(Triangles(pScene.mMeshes[i]))])

\* C11: a successful addModel appends to the index buffer the three indices of
\* every face that has exactly three, and nothing for any other face; each
\* part's indexCount is three times the number of three-index faces of its
\* mesh and the group's indexCount grows by three per such face; the call
\* returns the new model's index, no error, whatever faces were skipped.
C11_OnlyTrianglesAreIndexed ==
    [][\A f \in Filenames :
          (ImporterSucceeds(f) /\ AddModel(f))
              => LET pScene == ReadFile(f)
                     model == models'[Len(models')]
                 IN /\ indexBuffer' = indexBuffer \o TriangleIndices(pScene)
                    /\ indexCount' = indexCount + Len(TriangleIndices(pScene))
                    /\ \A i \in 1..Len(pScene.mMeshes) :
                          model.parts[i].indexCount = 3 * Len(Triangles(pScene.mMeshes[i]))
                    /\ lastCall'.ret = Len(models)
                    /\ lastCall'.ub = "none"
                    /\ ~halted']_vars

\* An asset has been loaded whose second mesh has five faces, two of them with
\* three indices: its part counts six indices, the last six of the buffer.
C11_Witness ==
    /\ lastCall.op = "addModel"
    /\ lastCall.ret = Len(models) - 1
    /\ Len(models) >= 1
    /\ Len(models[Len(models)].parts) = 2
    /\ models[Len(models)].parts[2].indexCount = 6
    /\ SubSeq(indexBuffer, Len(indexBuffer) - 5, Len(indexBuffer)) = <<0, 1, 2, 1, 2, 3>>

----------------------------------------------------------------------------
(* The packed materials: C12 (under Spec). *)

\* Whether the fraction q (numerator, denominator) equals n / d.
FracIs(q, n, d) == q[2] > 0 /\ q[1] * d = n * q[2]

\* C12: every material prepare has built has Nm = 0.9 and has Nr = 0.2 when its
\* shininess is 0 and Nr = 10 / shininess otherwise (0.5 for shininess 20),
\* the shininess being that of the source material it was built from.
C12_RoughnessFromShininess ==
    /\ \A k \in 1..Len(materials) :
          /\ FracIs(materials[k].Nm, 9, 10)
          /\ materials[k].Ns = 0 => FracIs(materials[k].Nr, 2, 10)
          /\ materials[k].Ns # 0 => FracIs(materials[k].Nr, 10, materials[k].Ns)
          /\ materials[k].Ns = 20 => FracIs(materials[k].Nr, 1, 2)
    /\ lastCall.op = "prepare"
          => \A i \in 1..Len(aiMaterials) :
                PreparedMaterial(i).Ns = aiMaterials[i].shininess

\* prepare has built materials from a source of shininess 20 (Nr one half) and
\* from a source of shininess 0 (Nr one fifth).
C12_Witness ==
    /\ lastCall.op = "prepare"
    /\ \E i \in 1..Len(aiMaterials) :
          aiMaterials[i].shininess = 20 /\ PreparedMaterial(i).Nr = <<1, 2>>
    /\ \E i \in 1..Len(aiMaterials) :
          aiMaterials[i].shininess = 0 /\ PreparedMaterial(i).Nr = <<1, 5>>
    /\ \E i \in 1..Len(aiMaterials) :
          aiMaterials[i].shininess = 5 /\ PreparedMaterial(i).Nr = <<2, 1>>

----------------------------------------------------------------------------
(* Part ranges: C13, C14 (under Spec). *)

\* C13: after any sequence of addModel calls, every part of every model ends
\* within the group's totals: vertexBase + vertexCount <= vertexCount and
\* indexBase + indexCount <= indexCount, which is the length of the index
\* buffer.
C13_PartsLieWithinTotals ==
    /\ indexCount = Len(indexBuffer)
    /\ \A m \in 1..Len(models) : \A p \in 1..Len(models[m].parts) :
          LET part == models[m].parts[p]
          IN /\ part.vertexBase + part.vertexCount <= vertexCount
             /\ part.indexBase + part.indexCount <= indexCount

\* Two assets are loaded: the last part ends at the totals, the first part of
\* the first asset ends below them.
C13_Witness ==
    /\ Len(models) = 2
    /\ LET first == models[1].parts[1]
           last == models[2].parts[Len(models[2].parts)]
       IN /\ first.vertexCount > 0 /\ first.indexCount > 0
          /\ first.vertexBase + first.vertexCount < vertexCount
          /\ first.indexBase + first.indexCount < indexCount
          /\ last.vertexBase + last.vertexCount = vertexCount
          /\ last.indexBase + last.indexCount = indexCount
          /\ last.vertexBase > 0

\* The half-open ranges [lo1, lo1 + n1) and [lo2, lo2 + n2) share no element.
Disjoint(lo1, n1, lo2, n2) == lo1 + n1 <= lo2 \/ lo2 + n2 <= lo1

\* C14: over all parts in load order (models as added, parts in mesh order),
\* the first part starts at vertex 0 and index 0, every later part starts
\* exactly where the part before it ends, so vertexBase and indexBase never
\* decrease (they do not restart with an asset) and the vertex ranges and the
\* index ranges of two different parts do not overlap.
C14_PartsAreContiguous ==
    LET parts == AllParts(models) IN
    /\ parts # <<>> => parts[1].vertexBase = 0 /\ parts[1].indexBase = 0
    /\ \A k \in 2..Len(parts) :
          /\ parts[k].vertexBase = parts[k - 1].vertexBase + parts[k - 1].vertexCount
          /\ parts[k].indexBase = parts[k - 1].indexBase + parts[k - 1].indexCount
          /\ parts[k].vertexBase >= parts[k - 1].vertexBase
          /\ parts[k].indexBase >= parts[k - 1].indexBase
    /\ \A j, k \in 1..Len(parts) :
          j # k => /\ Disjoint(parts[j].vertexBase, parts[j].vertexCount,
                               parts[k].vertexBase, parts[k].vertexCount)
                   /\ Disjoint(parts[j].indexBase, parts[j].indexCount,
                               parts[k].indexBase, parts[k].indexCount)

\* Two assets are loaded and the first part of the second asset starts where
\* the last part of the first asset ends, not at 0.
C14_Witness ==
    /\ Len(models) = 2
    /\ Len(models[1].parts) = 2
    /\ models[2].parts[1].vertexBase = 7
    /\ models[2].parts[1].indexBase = 9
    /\ models[2].parts[1].indexCount = 3

----------------------------------------------------------------------------
(* The texture registry over several prepare calls: C15 (under Spec).  The  *)
(* table is built anew by every prepare; mapDic holds the one of the last   *)
(* prepare.                                                                 *)

\* C15: the table a prepare builds starts with the table the prepare before it
\* built, whatever assets were loaded in between: every path keeps its
\* position, no path disappears, new paths come after the old ones.
C15_RegistryKeepsFirstSeenOrder ==
    [][Prepare => /\ Len(mapDic') >= Len(mapDic)
                  /\ \A k \in 1..Len(mapDic) : mapDic'[k] = mapDic[k]
                  /\ \A k \in 1..Len(mapDic) :
                        Find(mapDic', mapDic[k]) = k - 1]_vars

\* A second prepare, after a second asset was loaded, has kept a.png at
\* position 0 and registered the new asset's b.png after it (materials holds
\* the one material of the first prepare and the four of the second).
C15_Witness ==
    /\ lastCall.op = "prepare"
    /\ mapDic = <<"a.png", "b.png">>
    /\ Len(aiMaterials) = 4
    /\ Len(materials) = 5
    /\ materials[1].Md = 0 /\ materials[2].Md = 0 /\ materials[5].Md = 0
    /\ materials[3].Md = 1

----------------------------------------------------------------------------
(* The bounding box: C16 (under Spec). *)

\* The source positions of every vertex of every mesh of a scene.
Positions(pScene) ==
    UNION {{pScene.mMeshes[i].mVertices[j] : j \in 1..Len(pScene.mMeshes[i].mVertices)} :
           i \in 1..Len(pScene.mMeshes)}

\* The least and the greatest c-th coordinate of a non-empty set of positions.
MinCoord(ps, c) == CHOOSE x \in {p[c] : p \in ps} : \A p \in ps : x <= p[c]
MaxCoord(ps, c) == CHOOSE x \in {p[c] : p \in ps} : \A p \in ps : x >= p[c]

\* C16: a successful addModel of an asset with at least one vertex stores a
\* model whose dim.min and dim.max are the component-wise minimum and maximum
\* of the source positions of all vertices of all its meshes, with
\* dim.size = dim.max - dim.min.
C16_BoundingBoxOfAllVertices ==
    [][\A f \in Filenames :
          (ImporterSucceeds(f) /\ Positions(ReadFile(f)) # {} /\ AddModel(f))
              => LET ps == Positions(ReadFile(f))
                     dim == models'[Len(models')].dim
                 IN /\ dim.min = <<MinCoord(ps, 1), MinCoord(ps, 2), MinCoord(ps, 3)>>
                    /\ dim.max = <<MaxCoord(ps, 1), MaxCoord(ps, 2), MaxCoord(ps, 3)>>
                    /\ dim.size = <<dim.max[1] - dim.min[1], dim.max[2] - dim.min[2],
                                    dim.max[3] - dim.min[3]>>]_vars

\* The two-mesh asset has been loaded, with extremes taken from both meshes,
\* and then the asset whose only vertex is (1,2,3): dim.min = dim.max = (1,2,3)
\* and dim.size = (0,0,0).
C16_Witness ==
    /\ lastCall.op = "addModel"
    /\ lastCall.ret = 1
    /\ Len(models) = 2
    /\ models[1].dim = [min |-> <<-1, -2, -3>>, max |-> <<4, 2, 7>>, size |-> <<5, 4, 10>>]
    /\ models[2].dim = [min |-> <<1, 2, 3>>, max |-> <<1, 2, 3>>, size |-> <<0, 0, 0>>]

----------------------------------------------------------------------------
(* Rebuilding the instance buffer: C17 (under SpecBuf). *)

\* C17: a buildInstanceBuffer call made while the instance buffer of an
\* earlier build exists first waits for the device to be idle, then releases
\* that buffer, and only then creates and maps the new one, so that no buffer
\* of an earlier build is left unreleased.
C17_RebuildWaitsThenReleases ==
    [][(BuildInstanceBuffer /\ instanceBuff.created)
          => /\ Len(lastCall'.device) >= 4
             /\ SubSeq(lastCall'.device, 1, 4)
                   = <<"vkDeviceWaitIdle", "destroy", "createBuffer", "map">>]_vars

----------------------------------------------------------------------------
(* Materials of an asset: C18 (under Spec); appending only: C19 (under      *)
(* SpecDraw, where instances exist while assets are loaded).                *)

\* C18: a successful addModel with M raw materials accumulated before it puts
\* the asset's n materials at positions M .. M+n-1 of aiMaterials, in source
\* order, after the M it leaves in place, and gives every part the materialIdx
\* M + its mesh's material index, which is a position of a material of this
\* asset and of no other.
C18_MaterialBaseBeforeAppend ==
    [][\A f \in Filenames :
          (ImporterSucceeds(f) /\ AddModel(f))
              => LET pScene == ReadFile(f)
                     M == Len(aiMaterials)
                     n == Len(pScene.mMaterials)
                     model == models'[Len(models')]
                 IN /\ Len(aiMaterials') = M + n
                    /\ \A i \in 1..M : aiMaterials'[i] = aiMaterials[i]
                    /\ \A i \in 1..n : aiMaterials'[M + i] = pScene.mMaterials[i]
                    /\ \A p \in 1..Len(pScene.mMeshes) :
                          /\ model.parts[p].materialIdx
                                = M + pScene.mMeshes[p].mMaterialIndex
                          /\ model.parts[p].materialIdx \in M..(M + n - 1)
                          /\ aiMaterials'[model.parts[p].materialIdx + 1]
                                = pScene.mMaterials[pScene.mMeshes[p].mMaterialIndex + 1]]_vars

\* The three-material asset has been loaded after a one-material asset: its
\* parts refer to positions 3 and 2, its own third and second material.
C18_Witness ==
    /\ lastCall.op = "addModel"
    /\ lastCall.ret = 1
    /\ Len(models) = 2
    /\ Len(aiMaterials) = 4
    /\ Len(models[1].parts) = 1 /\ models[1].parts[1].materialIdx = 0
    /\ models[2].parts[1].materialIdx = 3
    /\ models[2].parts[2].materialIdx = 2
    /\ aiMaterials[4].texDiffuse = "a.png" /\ aiMaterials[4].shininess = 5

\* C19: a successful addModel appends exactly one model and changes nothing
\* that was there: the models loaded before (parts and bounding box), the
\* vertex buffer and the index buffer up to their old lengths, the raw
\* materials up to their old number, and the two instance sequences.
C19_AddModelOnlyAppends ==
    [][\A f \in DrawFilenames :
          (ImporterSucceeds(f) /\ AddModel(f))
              => /\ Len(models') = Len(models) + 1
                 /\ \A m \in 1..Len(models) : models'[m] = models[m]
                 /\ Len(vertexBuffer') >= Len(vertexBuffer)
                 /\ SubSeq(vertexBuffer', 1, Len(vertexBuffer)) = vertexBuffer
                 /\ Len(indexBuffer') >= Len(indexBuffer)
                 /\ SubSeq(indexBuffer', 1, Len(indexBuffer)) = indexBuffer
                 /\ Len(aiMaterials') >= Len(aiMaterials)
                 /\ SubSeq(aiMaterials', 1, Len(aiMaterials)) = aiMaterials
                 /\ instances' = instances
                 /\ instanceDatas' = instanceDatas]_vars

\* A second asset has been loaded into a group that held a model and two
\* instances of it.
C19_Witness ==
    /\ lastCall.op = "addModel"
    /\ lastCall.ret = 1
    /\ Len(models) = 2
    /\ Len(instances) = 2
    /\ Len(instanceDatas) = 2
    /\ Len(models[1].parts) = 1
    /\ Len(aiMaterials) = 4

----------------------------------------------------------------------------
(* A group without textures: C20 (under Spec). *)

\* C20: when prepare runs on loaded assets none of whose materials has a
\* diffuse texture, it leaves out the texture array only: the vertex and index
\* buffers are uploaded and the material table and the instance buffer are
\* built, as they are for a textured group.
C20_TexturelessGroupIsBuilt ==
    (lastCall.op = "prepare" /\ lastCall.ub = "none" /\ models # <<>>
        /\ \A i \in 1..Len(aiMaterials) : aiMaterials[i].texDiffuse = "")
        => /\ ~texArray.created
           /\ vertices.created /\ vertices.copied = Len(vertexBuffer) * sizeofFloat
           /\ indices.created /\ indices.copied = Len(indexBuffer) * sizeofU32
           /\ materialsBuff.created
           /\ materialsBuff.copied = sizeofMaterial * Len(materials)
           /\ instanceBuff.created

----------------------------------------------------------------------------
(* The material table after repeated prepare calls: C21 (under Spec). *)

\* Whether the packed material mat carries the properties of the raw material
\* aiMat.
DerivedFrom(mat, aiMat) ==
    /\ mat.Ka = aiMat.ambient /\ mat.Kd = aiMat.diffuse
    /\ mat.Ks = aiMat.specular /\ mat.Ke = aiMat.emissive
    /\ mat.Ns = aiMat.shininess

\* C21: after every prepare, a second one after more assets were loaded
\* included, materials has exactly one entry per raw material, entry i built
\* from raw material i, so that materials[part.materialIdx] is the material of
\* the part, for every part of every model.
C21_OneEntryPerRawMaterial ==
    lastCall.op = "prepare"
        => /\ Len(materials) = Len(aiMaterials)
           /\ \A i \in 1..Len(aiMaterials) :
                 i <= Len(materials) /\ DerivedFrom(materials[i], aiMaterials[i])
           /\ \A m \in 1..Len(models) : \A p \in 1..Len(models[m].parts) :
                 LET idx == models[m].parts[p].materialIdx + 1
                 IN idx <= Len(materials) /\ DerivedFrom(materials[idx], aiMaterials[idx])

----------------------------------------------------------------------------
(* What the draws address: C22 (under SpecDraw).  Every face index of the   *)
(* assets is below the vertex count of its mesh.                            *)

\* C22: every draw buildCommandBuffer records covers the index range of the
\* part its run names, and every index x stored in that range, moved by the
\* draw's vertexOffset, is a vertex of that part: x + vertexOffset lies in
\* [vertexBase, vertexBase + vertexCount).
C22_DrawsStayInsideTheirPart ==
    lastCall.op = "buildCommandBuffer"
        => \A k \in 1..Len(lastCall.cmds) :
              LET cmd == lastCall.cmds[k]
                  key == instances[cmd.firstInstance + 1]
                  part == models[key.modelIndex + 1].parts[key.partIndex + 1]
              IN /\ cmd.firstIndex = part.indexBase
                 /\ cmd.indexCount = part.indexCount
                 /\ cmd.firstIndex + cmd.indexCount <= Len(indexBuffer)
                 /\ \A j \in (cmd.firstIndex + 1)..(cmd.firstIndex + cmd.indexCount) :
                       /\ indexBuffer[j] + cmd.vertexOffset >= part.vertexBase
                       /\ indexBuffer[j] + cmd.vertexOffset
                             < part.vertexBase + part.vertexCount

\* Draws have been recorded for a part of the asset loaded first and for the
\* second part of the asset loaded after it, which starts at vertex 6.
C22_Witness ==
    /\ lastCall.op = "buildCommandBuffer"
    /\ Len(models) = 2
    /\ \E k \in 1..Len(lastCall.cmds) :
          lastCall.cmds[k].vertexOffset = 0 /\ lastCall.cmds[k].indexCount = 3
    /\ \E k \in 1..Len(lastCall.cmds) :
          /\ lastCall.cmds[k].vertexOffset = 6
          /\ lastCall.cmds[k].firstIndex = 6
          /\ lastCall.cmds[k].indexCount = 6

----------------------------------------------------------------------------
(* Refreshing the instance buffer: C23 (under SpecBuf). *)

\* C23: whatever addInstance, buildInstanceBuffer and updateInstancesBuffer
\* calls came before it, updateInstancesBuffer copies no more bytes than the
\* mapped instance buffer was created with by the last buildInstanceBuffer,
\* and copies nothing into a buffer that was never built.
C23_UpdateFitsTheBuiltBuffer ==
    lastCall.op = "updateInstancesBuffer"
        => /\ lastCall.ub = "none"
           /\ instanceBuff.copied <= instanceBuff.size
           /\ instanceBuff.copied > 0 => instanceBuff.created /\ instanceBuff.mapped

----------------------------------------------------------------------------
(* The bounding box and the stored positions: C24 (under Spec). *)

\* The floats before the position in a vertex of the layout.
RECURSIVE PositionOffset(_)
PositionOffset(k) ==
    IF layout[k] = "POSITION" THEN 0
    ELSE ComponentFloatCount(layout[k]) + PositionOffset(k + 1)

\* The position of vertex v (from 0) as the vertex buffer holds it.
StoredPosition(v) ==
    LET at == v * (stride \div sizeofFloat) + PositionOffset(1)
    IN <<vertexBuffer[at + 1], vertexBuffer[at + 2], vertexBuffer[at + 3]>>

\* The vertices (from 0) of the parts of model m.
ModelVertices(m) ==
    UNION {models[m].parts[p].vertexBase
             ..(models[m].parts[p].vertexBase + models[m].parts[p].vertexCount - 1) :
           p \in 1..Len(models[m].parts)}

\* C24 as claimed: for every model, [dim.min, dim.max] encloses every position
\* of the model as the vertex buffer holds it (y negated), on all three axes.
C24_BoxEnclosesStoredPositions ==
    \A m \in 1..Len(models) : \A v \in ModelVertices(m) : \A c \in 1..3 :
        /\ models[m].dim.min[c] <= StoredPosition(v)[c]
        /\ StoredPosition(v)[c] <= models[m].dim.max[c]

\* C24 as amended: for every model, [dim.min, dim.max] encloses every position
\* of the model as the vertex buffer holds it on the x and z axes; on the y
\* axis it encloses the negation of the stored y, which is the source y.
C24_BoxEnclosesSourcePositions ==
    \A m \in 1..Len(models) : \A v \in ModelVertices(m) :
        LET pos == StoredPosition(v)
            dim == models[m].dim
        IN /\ dim.min[1] <= pos[1] /\ pos[1] <= dim.max[1]
           /\ dim.min[2] <= -pos[2] /\ -pos[2] <= dim.max[2]
           /\ dim.min[3] <= pos[3] /\ pos[3] <= dim.max[3]

\* Two assets are loaded; the second is the one whose only vertex is (1,2,3),
\* held as (1,-2,3) at vertex 7 while its box is the point (1,2,3).
C24_Witness ==
    /\ Len(models) = 2
    /\ Len(models[1].parts) = 2
    /\ ModelVertices(2) = {7}
    /\ StoredPosition(7) = <<1, -2, 3>>
    /\ models[2].dim.min = <<1, 2, 3>>
    /\ models[2].dim.max = <<1, 2, 3>>

====
